---------------------------- MODULE Spec2Model ----------------------------
(***************************************************************************)
(* Model of cmd/adapter/main.go: the Class adapter, a gRPC record store    *)
(* over an embedded ordered key-value engine (badger).                     *)
(*                                                                         *)
(* A Go string is modelled as a sequence of one-character strings, so that *)
(* key concatenation, strings.LastIndex and the engine's lexicographic     *)
(* key order are computed on characters.  Field values are opaque strings. *)
(***************************************************************************)
EXTENDS Integers, Sequences, FiniteSets, TLC

VARIABLES
    db,       \* committed content of the engine: key -> value, DOMAIN = stored keys
    resp,     \* response (and error-log flag) of the most recent RPC call
    lastMut,  \* history: the most recent Create/Update/Delete call and its outcome
    streak,   \* history: how many times in a row that same call was issued (capped)
    written,  \* history: id -> the fields of its last committed write, while not deleted
    cId,      \* key codec: the id under test
    cField,   \* key codec: the field name under test
    cKey,     \* key codec: the encoded key
    cOut,     \* key codec: the decoded (id, field) pair
    procs     \* concurrent calls: each handler's position, transaction and answer

vars == <<db, resp, lastMut, streak, written, cId, cField, cKey, cOut, procs>>
storeVars == <<db, resp, lastMut, streak, written>>
codecVars == <<cId, cField, cKey, cOut>>
seqVars == <<resp, lastMut, streak, written>>

-----------------------------------------------------------------------------
(* Bounds of the model *)

\* longest id the key codec is exercised on
MaxIdLen == 3

\* cap of the history counter streak
MaxStreak == 2

-----------------------------------------------------------------------------
(* Strings *)

\* const delim = "."
delim == "."

\* the literal "Name" of Create/Update/Get/List
NameField == <<"N", "a", "m", "e">>

\* the literal "Semester" of Create/Update/Get/List
SemesterField == <<"S", "e", "m", "e", "s", "t", "e", "r">>

\* a field name the program never writes
OtherField == <<"O">>

\* byte value of a character: the engine orders keys bytewise
Code(c) ==
    CASE c = "." -> 46
      [] c = "N" -> 78
      [] c = "O" -> 79
      [] c = "S" -> 83
      [] c = "a" -> 97
      [] c = "b" -> 98
      [] c = "e" -> 101
      [] c = "m" -> 109
      [] c = "r" -> 114
      [] c = "s" -> 115
      [] c = "t" -> 116

\* bytes.Compare(s, t) < 0
RECURSIVE LexLess(_, _)
LexLess(s, t) ==
    IF t = <<>> THEN FALSE
    ELSE IF s = <<>> THEN TRUE
    ELSE IF Head(s) # Head(t) THEN Code(Head(s)) < Code(Head(t))
    ELSE LexLess(Tail(s), Tail(t))

\* strings.LastIndex(k, "."), 0-based; -1 when k holds no "."
RECURSIVE LastIndexFrom(_, _)
LastIndexFrom(k, i) ==
    IF i = 0 THEN -1
    ELSE IF k[i] = delim THEN i - 1
    ELSE LastIndexFrom(k, i - 1)

\* mutant: strings.Index, the first "." instead of the last
RECURSIVE FirstIndexFrom(_, _)
FirstIndexFrom(k, i) ==
    IF i > Len(k) THEN -1
    ELSE IF k[i] = delim THEN i - 1
    ELSE FirstIndexFrom(k, i + 1)

LastIndex_First(k) == FirstIndexFrom(k, 1)

LastIndex(k) == LastIndexFrom(k, Len(k))

\* mutant: the key is the id followed by the field name, with no separator
Key_NoDelim(id, field) == id \o field

\* in.Id + delim + "Name", in.Id + delim + "Semester"
Key(id, field) == id \o <<delim>> \o field

\* List's split of a scanned key: id := k[:lastIndex], param := k[lastIndex+1:]
\* (k[:-1] is a run-time panic: slice bounds out of range)
HasDelim(k) == LastIndex(k) >= 0

DecodeId(k) == SubSeq(k, 1, LastIndex(k))

DecodeParam(k) == SubSeq(k, LastIndex(k) + 2, Len(k))


-----------------------------------------------------------------------------
(* The engine: an ordered key-value store with atomic transactions *)

\* the store of a freshly opened database directory (main: ioutil.TempDir)
EmptyStore == [k \in {} |-> ""]

\* a write transaction's pending entries: key -> [del, val]
NoWrites == [k \in {} |-> [del |-> FALSE, val |-> ""]]

\* txn.Set(key, value): buffered in the transaction
TxnSet(w, k, v) ==
    [x \in DOMAIN w \cup {k} |-> IF x = k THEN [del |-> FALSE, val |-> v] ELSE w[x]]

\* txn.Delete(key): buffered in the transaction; an absent key is no error
TxnDelete(w, k) ==
    [x \in DOMAIN w \cup {k} |-> IF x = k THEN [del |-> TRUE, val |-> ""] ELSE w[x]]

\* txn.Commit(): every pending entry becomes visible at once
Commit(s, w) ==
    [x \in (DOMAIN s \cup DOMAIN w) \ {k \in DOMAIN w : w[k].del} |->
        IF x \in DOMAIN w THEN w[x].val ELSE s[x]]

\* mutant: no transaction, what the closure wrote before its error stays
DbUpdate_KeepsPartial(s, fn, commitFails) ==
    IF fn.err THEN [db |-> Commit(s, fn.writes), err |-> TRUE]
    ELSE IF commitFails THEN [db |-> s, err |-> TRUE]
    ELSE [db |-> Commit(s, fn.writes), err |-> FALSE]

\* db.Update(fn): run fn in a read-write transaction; commit when fn returns
\* nil, discard the transaction when fn or the commit reports an error
DbUpdate(s, fn, commitFails) ==
    IF fn.err THEN [db |-> s, err |-> TRUE]
    ELSE IF commitFails THEN [db |-> s, err |-> TRUE]
    ELSE [db |-> Commit(s, fn.writes), err |-> FALSE]

\* engine outcomes of a write transaction: 0 none, 1 the first key operation
\* fails, 2 the second fails, 3 the commit fails
WriteFaults == 0 .. 3

\* engine outcomes of Get's read transaction: 0 none, 1 txn.Get(Name) fails,
\* 2 its Value fails, 3 txn.Get(Semester) fails, 4 its Value fails
GetFaults == 0 .. 4

\* the keys of a store in iteration order (it.Rewind / it.Next): ascending
RECURSIVE SortedKeys(_)
SortedKeys(S) ==
    IF S = {} THEN <<>>
    ELSE LET m == CHOOSE x \in S : \A y \in S \ {x} : LexLess(x, y)
         IN  <<m>> \o SortedKeys(S \ {m})

-----------------------------------------------------------------------------
(* The RPC handlers *)

Class(id, name, semester) == [id |-> id, name |-> name, semester |-> semester]

\* what a handler hands back: the message, the RPC error, and whether the
\* handler logged an error
Response(op, c, classes, logged) ==
    [op |-> op, id |-> c.id, name |-> c.name, semester |-> c.semester,
     classes |-> classes, err |-> "nil", logged |-> logged]

\* mutant: the Semester key is built without the id
CreateFn_SharedSemester(in, fault) ==
    IF fault = 1 THEN [err |-> TRUE, writes |-> NoWrites]
    ELSE LET w1 == TxnSet(NoWrites, Key(in.id, NameField), in.name)
         IN  IF fault = 2 THEN [err |-> TRUE, writes |-> w1]
             ELSE [err |-> FALSE,
                   writes |-> TxnSet(w1, Key(<<>>, SemesterField), in.semester)]

\* mutant: the second Set stores in.Name again
CreateFn_NameTwice(in, fault) ==
    IF fault = 1 THEN [err |-> TRUE, writes |-> NoWrites]
    ELSE LET w1 == TxnSet(NoWrites, Key(in.id, NameField), in.name)
         IN  IF fault = 2 THEN [err |-> TRUE, writes |-> w1]
             ELSE [err |-> FALSE,
                   writes |-> TxnSet(w1, Key(in.id, SemesterField), in.name)]

\* the closure Create passes to db.Update
CreateFn(in, fault) ==
    IF fault = 1 THEN [err |-> TRUE, writes |-> NoWrites]
    ELSE LET w1 == TxnSet(NoWrites, Key(in.id, NameField), in.name)
         IN  IF fault = 2 THEN [err |-> TRUE, writes |-> w1]
             ELSE [err |-> FALSE,
                   writes |-> TxnSet(w1, Key(in.id, SemesterField), in.semester)]

\* mutant: Create leaves a record that is already stored as it is
Create_KeepsExisting(s, in, fault) ==
    LET r == DbUpdate(s, CreateFn(in, fault), fault = 3)
    IN  IF Key(in.id, NameField) \in DOMAIN s
        THEN [db |-> s, resp |-> Response("Create", in, <<>>, r.err)]
        ELSE [db |-> r.db, resp |-> Response("Create", in, <<>>, r.err)]

\* server.Create
Create(s, in, fault) ==
    LET r == DbUpdate(s, CreateFn(in, fault), fault = 3)
    IN  [db |-> r.db, resp |-> Response("Create", in, <<>>, r.err)]

\* the closure Update passes to db.Update
UpdateFn(in, fault) ==
    IF fault = 1 THEN [err |-> TRUE, writes |-> NoWrites]
    ELSE LET w1 == TxnSet(NoWrites, Key(in.id, NameField), in.name)
         IN  IF fault = 2 THEN [err |-> TRUE, writes |-> w1]
             ELSE [err |-> FALSE,
                   writes |-> TxnSet(w1, Key(in.id, SemesterField), in.semester)]

\* mutant: Update refuses a record that is not stored yet
Update_MustExist(s, in, fault) ==
    LET r == IF Key(in.id, NameField) \in DOMAIN s
             THEN DbUpdate(s, UpdateFn(in, fault), fault = 3)
             ELSE [db |-> s, err |-> TRUE]
    IN  [db |-> r.db, resp |-> Response("Update", in, <<>>, r.err)]

\* mutant: Update keeps the name it replaces, as the semester
Update_ShiftsOld(s, in, fault) ==
    LET nk == Key(in.id, NameField)
        kept == IF nk \in DOMAIN s THEN Class(in.id, in.name, s[nk]) ELSE in
        r == DbUpdate(s, UpdateFn(kept, fault), fault = 3)
    IN  [db |-> r.db, resp |-> Response("Update", in, <<>>, r.err)]

\* server.Update
Update(s, in, fault) ==
    LET r == DbUpdate(s, UpdateFn(in, fault), fault = 3)
    IN  [db |-> r.db, resp |-> Response("Update", in, <<>>, r.err)]

\* mutant: both Deletes name the Semester key
DeleteFn_SemesterTwice(in, fault) ==
    IF fault = 1 THEN [err |-> TRUE, writes |-> NoWrites]
    ELSE LET w1 == TxnDelete(NoWrites, Key(in.id, SemesterField))
         IN  IF fault = 2 THEN [err |-> TRUE, writes |-> w1]
             ELSE [err |-> FALSE,
                   writes |-> TxnDelete(w1, Key(in.id, SemesterField))]

\* the closure Delete passes to db.Update
DeleteFn(in, fault) ==
    IF fault = 1 THEN [err |-> TRUE, writes |-> NoWrites]
    ELSE LET w1 == TxnDelete(NoWrites, Key(in.id, NameField))
         IN  IF fault = 2 THEN [err |-> TRUE, writes |-> w1]
             ELSE [err |-> FALSE,
                   writes |-> TxnDelete(w1, Key(in.id, SemesterField))]

\* server.Delete: answers pb.Empty
Delete(s, in, fault) ==
    LET r == DbUpdate(s, DeleteFn(in, fault), fault = 3)
    IN  [db |-> r.db, resp |-> Response("Delete", Class(<<>>, "", ""), <<>>, r.err)]

\* mutant: a missing Name key answers the zero Class
GetFn_ZeroOnMissing(s, id, fault) ==
    LET nk == Key(id, NameField)
        sk == Key(id, SemesterField)
    IN  IF nk \notin DOMAIN s
        THEN [c |-> Class(<<>>, "", ""), err |-> TRUE]
        ELSE IF fault \in {1, 2}
        THEN [c |-> Class(id, "", ""), err |-> TRUE]
        ELSE IF sk \notin DOMAIN s \/ fault \in {3, 4}
        THEN [c |-> Class(id, s[nk], ""), err |-> TRUE]
        ELSE [c |-> Class(id, s[nk], s[sk]), err |-> FALSE]

\* the closure Get passes to db.View, on the transaction's snapshot s:
\* c starts with empty fields and keeps what was assigned before the error
GetFn(s, id, fault) ==
    LET nk == Key(id, NameField)
        sk == Key(id, SemesterField)
    IN  IF nk \notin DOMAIN s \/ fault \in {1, 2}
        THEN [c |-> Class(id, "", ""), err |-> TRUE]
        ELSE IF sk \notin DOMAIN s \/ fault \in {3, 4}
        THEN [c |-> Class(id, s[nk], ""), err |-> TRUE]
        ELSE [c |-> Class(id, s[nk], s[sk]), err |-> FALSE]

\* mutant: Get returns the transaction's error to the caller
Get_SurfacesError(s, id, fault) ==
    LET r == GetFn(s, id, fault)
        answer == Response("Get", r.c, <<>>, r.err)
    IN  [db |-> s,
         resp |-> IF r.err THEN [answer EXCEPT !.err = "error"] ELSE answer]

\* server.Get
Get(s, id, fault) ==
    LET r == GetFn(s, id, fault)
    IN  [db |-> s, resp |-> Response("Get", r.c, <<>>, r.err)]

\* mutant: a pair of a field List does not assign leaves no placeholder
ListStep_DropsUnknown(s, k, acc, valueFails) ==
    IF ~HasDelim(k) THEN [acc EXCEPT !.panic = TRUE]
    ELSE IF DecodeParam(k) \notin {NameField, SemesterField} THEN acc
    ELSE
    LET id == DecodeId(k)
        param == DecodeParam(k)
        ok == id \in DOMAIN acc.classMap
        index == IF ok THEN acc.classMap[id] ELSE Len(acc.classes)
        classMap == IF ok THEN acc.classMap
                    ELSE [x \in DOMAIN acc.classMap \cup {id} |->
                            IF x = id THEN index ELSE acc.classMap[x]]
        classes == IF ok THEN acc.classes
                   ELSE Append(acc.classes, Class(id, "", ""))
        assigned ==
            IF param = NameField
            THEN [classes EXCEPT ![index + 1].name = s[k]]
            ELSE [classes EXCEPT ![index + 1].semester = s[k]]
    IN  IF valueFails
        THEN [classes |-> classes, classMap |-> classMap, err |-> TRUE, panic |-> FALSE]
        ELSE [classes |-> assigned, classMap |-> classMap, err |-> FALSE, panic |-> FALSE]

\* mutant: a pair of an id seen before is assigned to the last record of the
\* sequence, not to the record classMap names
ListStep_AssignsLast(s, k, acc, valueFails) ==
    IF ~HasDelim(k) THEN [acc EXCEPT !.panic = TRUE]
    ELSE
    LET id == DecodeId(k)
        param == DecodeParam(k)
        ok == id \in DOMAIN acc.classMap
        index == IF ok THEN Len(acc.classes) - 1 ELSE Len(acc.classes)
        classMap == IF ok THEN acc.classMap
                    ELSE [x \in DOMAIN acc.classMap \cup {id} |->
                            IF x = id THEN index ELSE acc.classMap[x]]
        classes == IF ok THEN acc.classes
                   ELSE Append(acc.classes, Class(id, "", ""))
        assigned ==
            IF param = NameField
            THEN [classes EXCEPT ![index + 1].name = s[k]]
            ELSE IF param = SemesterField
            THEN [classes EXCEPT ![index + 1].semester = s[k]]
            ELSE classes
    IN  IF valueFails
        THEN [classes |-> classes, classMap |-> classMap, err |-> TRUE, panic |-> FALSE]
        ELSE [classes |-> assigned, classMap |-> classMap, err |-> FALSE, panic |-> FALSE]

\* mutant: no look-up in classMap, every scanned pair appends a placeholder
ListStep_NoLookup(s, k, acc, valueFails) ==
    IF ~HasDelim(k) THEN [acc EXCEPT !.panic = TRUE]
    ELSE
    LET id == DecodeId(k)
        param == DecodeParam(k)
        index == Len(acc.classes)
        classMap == [x \in DOMAIN acc.classMap \cup {id} |->
                        IF x = id THEN index ELSE acc.classMap[x]]
        classes == Append(acc.classes, Class(id, "", ""))
        assigned ==
            IF param = NameField
            THEN [classes EXCEPT ![index + 1].name = s[k]]
            ELSE IF param = SemesterField
            THEN [classes EXCEPT ![index + 1].semester = s[k]]
            ELSE classes
    IN  IF valueFails
        THEN [classes |-> classes, classMap |-> classMap, err |-> TRUE, panic |-> FALSE]
        ELSE [classes |-> assigned, classMap |-> classMap, err |-> FALSE, panic |-> FALSE]

\* one round of List's loop on scanned key k: split the key, find or append
\* the placeholder, then read the value (valueFails: item.Value reports an error)
ListStep(s, k, acc, valueFails) ==
    IF ~HasDelim(k) THEN [acc EXCEPT !.panic = TRUE]
    ELSE
    LET id == DecodeId(k)
        param == DecodeParam(k)
        ok == id \in DOMAIN acc.classMap
        index == IF ok THEN acc.classMap[id] ELSE Len(acc.classes)
        classMap == IF ok THEN acc.classMap
                    ELSE [x \in DOMAIN acc.classMap \cup {id} |->
                            IF x = id THEN index ELSE acc.classMap[x]]
        classes == IF ok THEN acc.classes
                   ELSE Append(acc.classes, Class(id, "", ""))
        assigned ==
            IF param = NameField
            THEN [classes EXCEPT ![index + 1].name = s[k]]
            ELSE IF param = SemesterField
            THEN [classes EXCEPT ![index + 1].semester = s[k]]
            ELSE classes
    IN  IF valueFails
        THEN [classes |-> classes, classMap |-> classMap, err |-> TRUE, panic |-> FALSE]
        ELSE [classes |-> assigned, classMap |-> classMap, err |-> FALSE, panic |-> FALSE]

\* List's loop over the iterator, from the i-th scanned key on; it stops at
\* the first error
RECURSIVE ListScan(_, _, _, _, _)
ListScan(s, ks, i, acc, fault) ==
    IF i > Len(ks) \/ acc.err \/ acc.panic THEN acc
    ELSE ListScan(s, ks, i + 1, ListStep(s, ks[i], acc, fault = i), fault)

\* the closure List passes to db.View, on the transaction's snapshot s;
\* fault k > 0: reading the value of the k-th scanned pair fails
ListFn(s, fault) ==
    ListScan(s, SortedKeys(DOMAIN s), 1,
             [classes |-> <<>>, classMap |-> [x \in {} |-> 0],
              err |-> FALSE, panic |-> FALSE],
             fault)

\* mutant: List answers an empty sequence when its transaction reports an error
List_EmptyOnError(s, fault) ==
    LET r == ListFn(s, fault)
        answer == Response("List", Class(<<>>, "", ""),
                           IF r.err THEN <<>> ELSE r.classes, r.err)
    IN  [db |-> s,
         resp |-> IF r.panic THEN [answer EXCEPT !.err = "panic"] ELSE answer]

\* server.List; a panic in the handler is not recovered: no response at all
List(s, fault) ==
    LET r == ListFn(s, fault)
        answer == Response("List", Class(<<>>, "", ""), r.classes, r.err)
    IN  [db |-> s,
         resp |-> IF r.panic THEN [answer EXCEPT !.err = "panic"] ELSE answer]

-----------------------------------------------------------------------------
(* The service, one call at a time *)

\* field values the clients use
Values == {"", "x"}

\* ids of the clients whose calls are followed with a history
ClassIds == {<<"a">>, <<"a", ".", "O">>}

Records == {Class(id, n, s) : id \in ClassIds, n \in Values, s \in Values}

\* ids of the clients of the scan: the empty id, a plain id, ids holding the
\* separator, one of them the Name key of another
ScanIds == {<<>>, <<"a">>, <<"a", ".", "O">>, <<"a", ".", "N", "a", "m", "e">>}

ScanRecords == {Class(id, "x", "y") : id \in ScanIds} \cup {Class(id, "", "x") : id \in ScanIds}

NoResponse == Response("none", Class(<<>>, "", ""), <<>>, FALSE)

NoMutation == [op |-> "none", id |-> <<>>, name |-> "", semester |-> "", committed |-> FALSE]

Mutation(op, in, committed) ==
    [op |-> op, id |-> in.id, name |-> in.name, semester |-> in.semester,
     committed |-> committed]

\* no id has been written
NoneWritten == [x \in {} |-> [name |-> "", semester |-> ""]]

\* the history of writes after a call: a committed Create or Update of an id
\* replaces what was written for it, a committed Delete forgets it, a call
\* that did not commit leaves the history as it was
LastWritten(op, in, committed) ==
    IF ~committed THEN written
    ELSE IF op = "Delete"
    THEN [x \in DOMAIN written \ {in.id} |-> written[x]]
    ELSE [x \in DOMAIN written \cup {in.id} |->
            IF x = in.id THEN [name |-> in.name, semester |-> in.semester]
            ELSE written[x]]

SameCall(op, in) ==
    /\ lastMut.op = op
    /\ lastMut.id = in.id
    /\ lastMut.name = in.name
    /\ lastMut.semester = in.semester

\* a mutating call: the handler's effect and, with hist, the history of it
Mutate(hist, op, in, r) ==
    /\ db' = r.db
    /\ resp' = r.resp
    /\ IF hist
       THEN /\ lastMut' = Mutation(op, in, ~r.resp.logged)
            /\ streak' = IF SameCall(op, in)
                         THEN (IF streak < MaxStreak THEN streak + 1 ELSE streak)
                         ELSE 1
            /\ written' = LastWritten(op, in, ~r.resp.logged)
       ELSE UNCHANGED <<lastMut, streak, written>>

\* a reading call
Read(r) ==
    /\ db' = r.db
    /\ resp' = r.resp
    /\ UNCHANGED <<lastMut, streak, written>>

CreateCall(recs, hist) ==
    \E in \in recs, fault \in WriteFaults :
        Mutate(hist, "Create", in, Create(db, in, fault))

UpdateCall(recs, hist) ==
    \E in \in recs, fault \in WriteFaults :
        Mutate(hist, "Update", in, Update(db, in, fault))

DeleteCall(recs, hist) ==
    \E id \in {r.id : r \in recs}, fault \in WriteFaults :
        Mutate(hist, "Delete", Class(id, "", ""), Delete(db, Class(id, "", ""), fault))

GetCall(recs) ==
    \E id \in {r.id : r \in recs}, fault \in GetFaults :
        Read(Get(db, id, fault))

ListCall ==
    \E fault \in 0 .. Cardinality(DOMAIN db) :
        Read(List(db, fault))

CodecIdle ==
    /\ cId = <<>>
    /\ cField = <<>>
    /\ cKey = <<>>
    /\ cOut = <<>>

\* the goroutines that serve calls at the same time
Procs == {"p1", "p2"}

\* List's cs.Classes and classMap before the loop
NoClasses ==
    [classes |-> <<>>, classMap |-> [x \in {} |-> 0], err |-> FALSE, panic |-> FALSE]

\* a goroutine of the server with no call running
IdleProc ==
    [pc |-> "idle", op |-> "none", in |-> Class(<<>>, "", ""),
     fn |-> [err |-> FALSE, writes |-> NoWrites],
     snap |-> EmptyStore, c |-> Class(<<>>, "", ""), acc |-> NoClasses, pos |-> 0,
     out |-> NoResponse, seen |-> {}]

NoCalls == [p \in Procs |-> IdleProc]

Init ==
    /\ db = EmptyStore
    /\ resp = NoResponse
    /\ lastMut = NoMutation
    /\ streak = 0
    /\ written = NoneWritten
    /\ CodecIdle
    /\ procs = NoCalls

\* calls on a few ids, with the history of the mutating calls
Next ==
    \/ CreateCall(Records, TRUE) /\ UNCHANGED <<codecVars, procs>>
    \/ UpdateCall(Records, TRUE) /\ UNCHANGED <<codecVars, procs>>
    \/ DeleteCall(Records, TRUE) /\ UNCHANGED <<codecVars, procs>>
    \/ GetCall(Records) /\ UNCHANGED <<codecVars, procs>>
    \/ ListCall /\ UNCHANGED <<codecVars, procs>>

Spec == Init /\ [][Next]_vars

\* calls on more ids, without the history
NextScan ==
    \/ CreateCall(ScanRecords, FALSE) /\ UNCHANGED <<codecVars, procs>>
    \/ UpdateCall(ScanRecords, FALSE) /\ UNCHANGED <<codecVars, procs>>
    \/ DeleteCall(ScanRecords, FALSE) /\ UNCHANGED <<codecVars, procs>>
    \/ GetCall(ScanRecords) /\ UNCHANGED <<codecVars, procs>>
    \/ ListCall /\ UNCHANGED <<codecVars, procs>>

SpecScan == Init /\ [][NextScan]_vars

-----------------------------------------------------------------------------
(* The readers on a store of any content *)

\* the most pairs of a store the readers are handed
MaxPairs == 3

\* ids of the pairs of such a store
AnyIds == {<<"a">>, <<"b">>, <<"a", ".", "O">>}

\* the field names List assigns
KnownFields == {NameField, SemesterField}

\* keys id.field, for the two fields List assigns and for one it does not
PairKeys == {Key(id, f) : id \in AnyIds, f \in KnownFields \cup {OtherField}}

\* keys without the separator
BareKeys == {<<"a">>, <<"O">>}

\* the keys among PairKeys of a field List assigns
KnownKeys == {Key(id, f) : id \in AnyIds, f \in KnownFields}

\* the value of the pairs that are no Name and no Semester pair
ForeignValue == "z"

\* the stores of at most MaxPairs pairs over these keys
AnyStores ==
    UNION {{s \in [K -> Values \cup {ForeignValue}] :
               \A k \in K : (s[k] = ForeignValue) <=> (k \notin KnownKeys)} :
           K \in {K \in SUBSET (PairKeys \cup BareKeys) : Cardinality(K) <= MaxPairs}}

InitAny ==
    /\ db \in AnyStores
    /\ resp = NoResponse
    /\ lastMut = NoMutation
    /\ streak = 0
    /\ written = NoneWritten
    /\ CodecIdle
    /\ procs = NoCalls

\* Get and List on the store as it is
NextAny ==
    \/ GetCall({Class(id, "", "") : id \in AnyIds}) /\ UNCHANGED <<codecVars, procs>>
    \/ ListCall /\ UNCHANGED <<codecVars, procs>>

SpecAny == InitAny /\ [][NextAny]_vars

-----------------------------------------------------------------------------
(* The key codec on its own *)

\* characters of the ids the codec is exercised on
IdChars == {"a", ".", "O"}

Ids == UNION {[1 .. n -> IdChars] : n \in 0 .. MaxIdLen}

\* field names without the separator: the two the program writes, and others
FieldNames == {NameField, SemesterField, OtherField, <<>>}

InitCodec ==
    /\ db = EmptyStore
    /\ resp = NoResponse
    /\ lastMut = NoMutation
    /\ streak = 0
    /\ written = NoneWritten
    /\ procs = NoCalls
    /\ cId \in Ids
    /\ cField \in FieldNames
    /\ cKey = <<>>
    /\ cOut = <<>>

\* Create/Update/Get build the key
CodecEncode ==
    /\ cKey = <<>>
    /\ cKey' = Key(cId, cField)
    /\ UNCHANGED <<cId, cField, cOut>>

\* List splits it
CodecDecode ==
    /\ cKey # <<>>
    /\ cOut = <<>>
    /\ HasDelim(cKey)
    /\ cOut' = <<DecodeId(cKey), DecodeParam(cKey)>>
    /\ UNCHANGED <<cId, cField, cKey>>

NextCodec ==
    \/ CodecEncode /\ UNCHANGED <<storeVars, procs>>
    \/ CodecDecode /\ UNCHANGED <<storeVars, procs>>

SpecCodec == InitCodec /\ [][NextCodec]_vars

-----------------------------------------------------------------------------
(* The service with calls running at the same time: one goroutine per call, *)
(* each handler a sequence of engine operations inside its transaction      *)

\* the id and the records of the concurrent clients
ConcIds == {<<"a">>}

ConcRecords == {Class(id, v, v) : id \in ConcIds, v \in {"x", "y"}}

\* mutant: no snapshot, every read goes to the store as it is now
View_Live(p) == db

\* the store a read transaction of db.View reads: the snapshot taken when
\* the transaction began
View(p) == procs[p].snap

\* the first key operation of a write closure, on the transaction's buffer
FirstOp(op, in) ==
    IF op = "Delete"
    THEN TxnDelete(NoWrites, Key(in.id, NameField))
    ELSE TxnSet(NoWrites, Key(in.id, NameField), in.name)

\* mutant: the second key operation starts a buffer of its own, the first one
\* is lost
SecondOp_OwnBuffer(op, in, w) ==
    IF op = "Delete"
    THEN TxnDelete(NoWrites, Key(in.id, SemesterField))
    ELSE TxnSet(NoWrites, Key(in.id, SemesterField), in.semester)

\* the second key operation of a write closure
SecondOp(op, in, w) ==
    IF op = "Delete"
    THEN TxnDelete(w, Key(in.id, SemesterField))
    ELSE TxnSet(w, Key(in.id, SemesterField), in.semester)

\* a commit is seen by every read call that is running
Observe(ps, s) ==
    [q \in Procs |->
        IF ps[q].op \in {"Get", "List"} /\ ps[q].pc # "idle"
        THEN [ps[q] EXCEPT !.seen = @ \cup {s}]
        ELSE ps[q]]

\* Create, Update or Delete is called: db.Update opens a transaction
BeginWrite(p) ==
    /\ procs[p].pc = "idle"
    /\ \E op \in {"Create", "Update", "Delete"}, in \in ConcRecords :
        procs' = [procs EXCEPT ![p] =
            [IdleProc EXCEPT !.pc = "op1", !.op = op,
                             !.in = IF op = "Delete" THEN Class(in.id, "", "") ELSE in]]
    /\ UNCHANGED db

\* txn.Set / txn.Delete of the Name key; on an error the closure returns it
WriteName(p) ==
    /\ procs[p].pc = "op1"
    /\ \E fails \in BOOLEAN :
        LET me == procs[p]
        IN  procs' = [procs EXCEPT ![p] =
                IF fails
                THEN [me EXCEPT !.pc = "commit", !.fn = [err |-> TRUE, writes |-> NoWrites]]
                ELSE [me EXCEPT !.pc = "op2",
                        !.fn = [err |-> FALSE, writes |-> FirstOp(me.op, me.in)]]]
    /\ UNCHANGED db

\* txn.Set / txn.Delete of the Semester key
WriteSemester(p) ==
    /\ procs[p].pc = "op2"
    /\ \E fails \in BOOLEAN :
        LET me == procs[p]
        IN  procs' = [procs EXCEPT ![p] =
                IF fails
                THEN [me EXCEPT !.pc = "commit", !.fn.err = TRUE]
                ELSE [me EXCEPT !.pc = "commit",
                        !.fn.writes = SecondOp(me.op, me.in, me.fn.writes)]]
    /\ UNCHANGED db

\* the closure has returned: db.Update commits or discards, the handler logs
\* an error and answers
EndUpdate(p) ==
    /\ procs[p].pc = "commit"
    /\ \E commitFails \in BOOLEAN :
        LET me == procs[p]
            r == DbUpdate(db, me.fn, commitFails)
            echo == IF me.op = "Delete" THEN Class(<<>>, "", "") ELSE me.in
            done == [procs EXCEPT ![p] =
                        [@ EXCEPT !.pc = "ret", !.out = Response(me.op, echo, <<>>, r.err)]]
        IN  /\ db' = r.db
            /\ procs' = Observe(done, r.db)

\* Get is called: db.View opens a read transaction
BeginGet(p) ==
    /\ procs[p].pc = "idle"
    /\ \E id \in ConcIds :
        procs' = [procs EXCEPT ![p] =
            [IdleProc EXCEPT !.pc = "read1", !.op = "Get", !.in = Class(id, "", ""),
                             !.c = Class(id, "", ""), !.snap = db, !.seen = {db}]]
    /\ UNCHANGED db

\* txn.Get of the Name key and its Value
ReadName(p) ==
    /\ procs[p].pc = "read1"
    /\ \E fails \in BOOLEAN :
        LET me == procs[p]
            s == View(p)
            nk == Key(me.in.id, NameField)
        IN  procs' = [procs EXCEPT ![p] =
                IF nk \notin DOMAIN s \/ fails
                THEN [@ EXCEPT !.pc = "ret", !.out = Response("Get", me.c, <<>>, TRUE)]
                ELSE [@ EXCEPT !.pc = "read2", !.c.name = s[nk]]]
    /\ UNCHANGED db

\* txn.Get of the Semester key and its Value; then the handler answers
ReadSemester(p) ==
    /\ procs[p].pc = "read2"
    /\ \E fails \in BOOLEAN :
        LET me == procs[p]
            s == View(p)
            sk == Key(me.in.id, SemesterField)
        IN  procs' = [procs EXCEPT ![p] =
                IF sk \notin DOMAIN s \/ fails
                THEN [@ EXCEPT !.pc = "ret", !.out = Response("Get", me.c, <<>>, TRUE)]
                ELSE [@ EXCEPT !.pc = "ret", !.c.semester = s[sk],
                        !.out = Response("Get", [me.c EXCEPT !.semester = s[sk]], <<>>, FALSE)]]
    /\ UNCHANGED db

\* List is called: db.View opens a read transaction, it.Rewind
BeginList(p) ==
    /\ procs[p].pc = "idle"
    /\ procs' = [procs EXCEPT ![p] =
            [IdleProc EXCEPT !.pc = "scan", !.op = "List", !.pos = 1,
                             !.snap = db, !.seen = {db}]]
    /\ UNCHANGED db

\* mutant: every round of List's loop reads the store as it is at that moment
ScanNext_ReadsLive(p) ==
    /\ procs[p].pc = "scan"
    /\ \E fails \in BOOLEAN :
        LET me == procs[p]
            s == db
            ks == SortedKeys(DOMAIN s)
        IN  procs' = [procs EXCEPT ![p] =
                IF me.pos > Len(ks) \/ me.acc.err \/ me.acc.panic
                THEN [@ EXCEPT !.pc = "ret",
                        !.out = [Response("List", Class(<<>>, "", ""), me.acc.classes, me.acc.err)
                                    EXCEPT !.err = IF me.acc.panic THEN "panic" ELSE "nil"]]
                ELSE [@ EXCEPT !.pos = @ + 1,
                        !.acc = ListStep(s, ks[me.pos], me.acc, fails)]]
    /\ UNCHANGED db

\* one round of List's loop, or its end: the handler answers
ScanNext(p) ==
    /\ procs[p].pc = "scan"
    /\ \E fails \in BOOLEAN :
        LET me == procs[p]
            s == View(p)
            ks == SortedKeys(DOMAIN s)
        IN  procs' = [procs EXCEPT ![p] =
                IF me.pos > Len(ks) \/ me.acc.err \/ me.acc.panic
                THEN [@ EXCEPT !.pc = "ret",
                        !.out = [Response("List", Class(<<>>, "", ""), me.acc.classes, me.acc.err)
                                    EXCEPT !.err = IF me.acc.panic THEN "panic" ELSE "nil"]]
                ELSE [@ EXCEPT !.pos = @ + 1,
                        !.acc = ListStep(s, ks[me.pos], me.acc, fails)]]
    /\ UNCHANGED db

\* the caller has its answer: the goroutine ends
Return(p) ==
    /\ procs[p].pc = "ret"
    /\ procs' = [procs EXCEPT ![p] = IdleProc]
    /\ UNCHANGED db

NextConc ==
    \E p \in Procs :
        \/ BeginWrite(p) /\ UNCHANGED <<seqVars, codecVars>>
        \/ WriteName(p) /\ UNCHANGED <<seqVars, codecVars>>
        \/ WriteSemester(p) /\ UNCHANGED <<seqVars, codecVars>>
        \/ EndUpdate(p) /\ UNCHANGED <<seqVars, codecVars>>
        \/ BeginGet(p) /\ UNCHANGED <<seqVars, codecVars>>
        \/ ReadName(p) /\ UNCHANGED <<seqVars, codecVars>>
        \/ ReadSemester(p) /\ UNCHANGED <<seqVars, codecVars>>
        \/ BeginList(p) /\ UNCHANGED <<seqVars, codecVars>>
        \/ ScanNext(p) /\ UNCHANGED <<seqVars, codecVars>>
        \/ Return(p) /\ UNCHANGED <<seqVars, codecVars>>

SpecConc == Init /\ [][NextConc]_vars

-----------------------------------------------------------------------------
(* Properties *)

\* what the caller receives of a response: the message and the RPC error
Msg(r) ==
    [id |-> r.id, name |-> r.name, semester |-> r.semester,
     classes |-> r.classes, err |-> r.err]

\* the stored value of a field of id X, "" when the pair is absent
FieldOf(s, X, field) ==
    IF Key(X, field) \in DOMAIN s THEN s[Key(X, field)] ELSE ""

\* the ids among I that have at least one stored pair
IdsWithPairs(s, I) ==
    {X \in I : Key(X, NameField) \in DOMAIN s \/ Key(X, SemesterField) \in DOMAIN s}

\* the last call was a Get of the id of the last mutating call, which was op
GetAfter(op) ==
    /\ resp.op = "Get"
    /\ lastMut.op = op
    /\ lastMut.id = resp.id

ListComplete(s, I, cs) ==
    /\ Len(cs) = Cardinality(IdsWithPairs(s, I))
    /\ {cs[i].id : i \in 1 .. Len(cs)} = IdsWithPairs(s, I)
    /\ \A i \in 1 .. Len(cs) :
        /\ cs[i].name = FieldOf(s, cs[i].id, NameField)
        /\ cs[i].semester = FieldOf(s, cs[i].id, SemesterField)

C6_ErrorsSuppressed ==
    /\ resp.err = "nil"
    /\ \A in \in Records, f \in WriteFaults :
        /\ Create(db, in, f).resp.err = "nil"
        /\ Update(db, in, f).resp.err = "nil"
        /\ Delete(db, in, f).resp.err = "nil"
        /\ f # 0 => /\ Create(db, in, f).resp.logged
                    /\ Update(db, in, f).resp.logged
                    /\ Delete(db, in, f).resp.logged
    /\ \A id \in ClassIds, f \in GetFaults :
        /\ Get(db, id, f).resp.err = "nil"
        /\ (f # 0 \/ id \notin IdsWithPairs(db, ClassIds)) => Get(db, id, f).resp.logged
    /\ \A f \in 0 .. Cardinality(DOMAIN db) :
        /\ List(db, f).resp.err = "nil"
        /\ f # 0 => List(db, f).resp.logged

C6_Witness ==
    /\ resp.op = "Get"
    /\ resp.logged
    /\ resp.id \in IdsWithPairs(db, ClassIds)

\* store s without the pairs of id X
Without(s, X) ==
    [k \in DOMAIN s \ {Key(X, NameField), Key(X, SemesterField)} |-> s[k]]

\* C7: for every id X, what the caller receives from Get(X) on a store where
\* X has no pairs equals what it receives on a store where X was created with
\* empty name and empty semester, for every engine outcome of either call;
\* a Get of an absent id and a Get of an id stored with empty fields both
\* answer (X, "", "") with no error.
C7_NotFoundIndistinguishable ==
    /\ \A X \in ClassIds, f1 \in GetFaults, f2 \in GetFaults :
        Msg(Get(Without(db, X), X, f1).resp)
            = Msg(Get(Create(db, Class(X, "", ""), 0).db, X, f2).resp)
    /\ (/\ resp.op = "Get"
        /\ FieldOf(db, resp.id, NameField) = ""
        /\ FieldOf(db, resp.id, SemesterField) = "") =>
            Msg(resp) = Msg(Response("Get", Class(resp.id, "", ""), <<>>, FALSE))

C7_Witness ==
    /\ GetAfter("Create")
    /\ lastMut.committed
    /\ lastMut.name = ""
    /\ lastMut.semester = ""
    /\ ~resp.logged

\* C8: in every reachable store, for every record R and every engine outcome,
\* Update(R) and Create(R) leave the same store and answer the same response,
\* the input record echoed; neither checks that R.id is stored.
C8_UpdateIsCreate ==
    \A in \in Records, f \in WriteFaults :
        LET c == Create(db, in, f)
            u == Update(db, in, f)
        IN  /\ u.db = c.db
            /\ Msg(u.resp) = Msg(c.resp)
            /\ u.resp.logged = c.resp.logged
            /\ Msg(u.resp) = Msg(Response("Update", in, <<>>, FALSE))

C8_Witness ==
    /\ resp.op = "Update"
    /\ lastMut.op = "Update"
    /\ ~lastMut.committed
    /\ resp.name = "x"
    /\ resp.id \notin IdsWithPairs(db, ClassIds)

\* C9: in every reachable store and for every record R, a second Update(R)
\* leaves the store in a state a single Update(R) leaves it in; once an
\* Update(R) has committed, a further Update(R) changes nothing, whatever the
\* engine does in it.
C9_UpdateIdempotent ==
    \A in \in Records, f1 \in WriteFaults, f2 \in WriteFaults :
        LET once == Update(db, in, f1).db
            twice == Update(once, in, f2).db
        IN  /\ twice \in {Update(db, in, f).db : f \in WriteFaults}
            /\ f1 = 0 => twice = once
            /\ f1 = f2 => twice = once

C9_Witness ==
    /\ lastMut.op = "Update"
    /\ lastMut.committed
    /\ streak >= 2
    /\ resp.op = "Update"

\* C10: for every id, also one holding ".", and every field name without ".",
\* the key id + "." + fieldName holds a ".", and splitting it at its last "."
\* as List does yields (id, fieldName).
C10_KeyRoundTrip ==
    /\ cKey # <<>> => HasDelim(cKey)
    /\ cOut # <<>> => cOut = <<cId, cField>>

C10_Witness ==
    /\ cId = <<"a", ".", "a">>
    /\ cField = NameField
    /\ cKey = <<"a", ".", "a", ".", "N", "a", "m", "e">>
    /\ cOut = <<cId, cField>>

\* C4 as stated rests on the two key writes of a Create or Update being
\* independent writes: the Name pair of the call is in the store, where a
\* concurrent Get or List reads it, as soon as it is written and before the
\* Semester pair is.
C4_FieldLevelWrites ==
    [][\A p \in Procs :
        (/\ procs[p].pc = "op1"
         /\ procs[p].op \in {"Create", "Update"}
         /\ procs'[p].pc = "op2") =>
            /\ Key(procs[p].in.id, NameField) \in DOMAIN db'
            /\ db'[Key(procs[p].in.id, NameField)] = procs[p].in.name]_vars

\* C4 amended: Create, Update and Delete commit their two key operations at
\* once and Get and List read one snapshot, so a Get or List that runs
\* concurrently with such calls answers what it answers on one committed state
\* of the store between its call and its return (cut short only by a read error
\* of its own): never one field of a write and the other from before it.
C4_ReadersSeeOneState ==
    \A p \in Procs :
        procs[p].pc = "ret" =>
            /\ procs[p].op = "Get" =>
                \E s \in procs[p].seen, f \in GetFaults :
                    Msg(procs[p].out) = Msg(Get(s, procs[p].in.id, f).resp)
            /\ procs[p].op = "List" =>
                \E s \in procs[p].seen :
                    \E f \in 0 .. Cardinality(DOMAIN s) :
                        Msg(procs[p].out) = Msg(List(s, f).resp)

C4_Witness ==
    \E p \in Procs :
        /\ procs[p].pc = "ret"
        /\ procs[p].op = "Get"
        /\ ~procs[p].out.logged
        /\ procs[p].out.name = "x"
        /\ FieldOf(db, procs[p].in.id, NameField) = "y"
        /\ Cardinality(procs[p].seen) >= 2

\* C5: in every committed store reachable from the empty store by any
\* interleaving of Create, Update and Delete calls, also calls whose first or
\* second key operation or commit fails, X.Name is stored if and only if
\* X.Semester is.
C5_PairsTogether ==
    \A X \in ConcIds :
        Key(X, NameField) \in DOMAIN db <=> Key(X, SemesterField) \in DOMAIN db

C5_Witness ==
    \E p \in Procs, q \in Procs :
        /\ procs[p].pc = "ret"
        /\ procs[p].op = "Create"
        /\ procs[p].out.logged
        /\ procs[p].fn.writes # NoWrites
        /\ procs[q].pc = "op2"
        /\ procs[q].op = "Delete"
        /\ db = EmptyStore

\* the keys id X can have in a store of any content
KeysOfId(X) == {Key(X, f) : f \in KnownFields \cup {OtherField}}

\* the place in the scan of the first pair of id X, 0 when X has no pair
FirstPair(s, X) ==
    LET ks == SortedKeys(DOMAIN s)
        hits == {i \in 1 .. Len(ks) : ks[i] \in KeysOfId(X)}
    IN  IF hits = {} THEN 0 ELSE CHOOSE i \in hits : \A j \in hits : i <= j

\* no record of the sequence carries the value of a foreign pair
NoForeignValue(classes) ==
    \A i \in 1 .. Len(classes) :
        /\ classes[i].name # ForeignValue
        /\ classes[i].semester # ForeignValue

\* every key of the store is an id.field key
OnlyPairKeys == DOMAIN db \cap BareKeys = {}

ListDone(p) == procs[p].pc = "ret" /\ procs[p].op = "List"

\* C12 as stated: the records a List returns, also a List that runs while
\* Create, Update and Delete calls commit, are exactly the records assembled
\* from the committed store as it was at one instant between the call and the
\* return.
C12_ListOfOneInstant ==
    \A p \in Procs :
        ListDone(p) =>
            \E s \in procs[p].seen :
                procs[p].out.classes = List(s, 0).resp.classes

\* C12 amended: a List that runs while Create, Update and Delete calls commit
\* returns the records assembled from the committed store as it was at one
\* instant between the call and the return, all of them when its scan meets no
\* read error and those assembled up to the failing pair otherwise; no record
\* holds the name of one committed write and the semester of another.
C12_ListSnapshot ==
    \A p \in Procs :
        ListDone(p) =>
            /\ \E s \in procs[p].seen :
                  IF procs[p].out.logged
                  THEN \E f \in 1 .. Cardinality(DOMAIN s) :
                          procs[p].out.classes = List(s, f).resp.classes
                  ELSE procs[p].out.classes = List(s, 0).resp.classes
            /\ \A i \in 1 .. Len(procs[p].out.classes) :
                  LET c == procs[p].out.classes[i]
                  IN  c.name # "" /\ c.semester # "" => c.name = c.semester

C12_Witness ==
    \E p \in Procs :
        /\ ListDone(p)
        /\ ~procs[p].out.logged
        /\ procs[p].out.classes = <<Class(<<"a">>, "x", "x")>>
        /\ FieldOf(db, <<"a">>, NameField) = "y"
        /\ FieldOf(db, <<"a">>, SemesterField) = "y"
        /\ procs[p].pos = 3

FirstPairs(s, n) ==
    LET ks == SortedKeys(DOMAIN s)
    IN  [x \in {ks[i] : i \in 1 .. n} |-> s[x]]

\* the id among ScanIds that key k belongs to
ScanIdOf(k) ==
    CHOOSE X \in ScanIds : k \in {Key(X, NameField), Key(X, SemesterField)}

\* the records assembled when the value of the k-th scanned pair cannot be
\* read: those of the k-1 pairs before it, and an empty record for the id of
\* the k-th pair when it is the first pair of its id
PartialUpTo(s, k) ==
    LET before == List(FirstPairs(s, k - 1), 0).resp.classes
        X == ScanIdOf(SortedKeys(DOMAIN s)[k])
    IN  IF \E i \in 1 .. Len(before) : before[i].id = X
        THEN before
        ELSE Append(before, Class(X, "", ""))

\* C15 as stated: when reading the value of a scanned pair fails, List returns
\* the records assembled up to that pair, not an empty sequence, and returns
\* the error with them.
C15_ScanErrorReturned ==
    (resp.op = "List" /\ resp.logged) =>
        /\ resp.classes # <<>>
        /\ resp.err = "error"

\* C15 amended: when reading the value of the k-th scanned pair fails, the
\* scan stops and List returns the records assembled up to that pair, not an
\* empty sequence; the error is logged and the caller receives no error.
C15_PartialOnScanError ==
    /\ \A k \in 1 .. Cardinality(DOMAIN db) :
          LET r == List(db, k).resp
          IN  /\ r.classes = PartialUpTo(db, k)
              /\ r.classes # <<>>
              /\ r.logged
              /\ r.err = "nil"
    /\ (resp.op = "List" /\ resp.logged) =>
          /\ resp.err = "nil"
          /\ \E k \in 1 .. Cardinality(DOMAIN db) : resp.classes = PartialUpTo(db, k)

C15_Witness ==
    /\ resp.op = "List"
    /\ resp.logged
    /\ Len(resp.classes) = 2
    /\ resp.classes[1] = Class(<<"a">>, "x", "")
    /\ resp.classes[2] = Class(<<"a", ".", "O">>, "", "")
    /\ FieldOf(db, <<"a">>, SemesterField) = "y"
    /\ FieldOf(db, <<"a", ".", "O">>, NameField) = "x"

\* the ids of the first n keys of the scan ks, each once, in the order the
\* scan first meets them
RECURSIVE FirstSeen(_, _)
FirstSeen(ks, n) ==
    IF n = 0 THEN <<>>
    ELSE LET before == FirstSeen(ks, n - 1)
             X == ScanIdOf(ks[n])
         IN  IF \E i \in 1 .. Len(before) : before[i] = X
             THEN before
             ELSE Append(before, X)

\* C16: the sequence List returns names the ids in the order the scan, which
\* runs over the keys in lexicographic order, first meets them, and no id
\* twice, also when the keys of two ids interleave; a later pair of an id met
\* before goes to the record of that id.
C16_FirstSeenOrder ==
    resp.op = "List" =>
        LET ks == SortedKeys(DOMAIN db)
            order == FirstSeen(ks, Len(ks))
            cs == resp.classes
        IN  /\ Len(cs) <= Len(order)
            /\ \A i \in 1 .. Len(cs) : cs[i].id = order[i]
            /\ ~resp.logged => Len(cs) = Len(order)
            /\ \A i \in 1 .. Len(cs), j \in 1 .. Len(cs) : i # j => cs[i].id # cs[j].id
            /\ \A i \in 1 .. Len(cs) :
                  /\ cs[i].name \in {"", FieldOf(db, cs[i].id, NameField)}
                  /\ cs[i].semester \in {"", FieldOf(db, cs[i].id, SemesterField)}
                  /\ ~resp.logged =>
                        /\ cs[i].name = FieldOf(db, cs[i].id, NameField)
                        /\ cs[i].semester = FieldOf(db, cs[i].id, SemesterField)

C16_Witness ==
    /\ resp.op = "List"
    /\ ~resp.logged
    /\ \E i \in 1 .. Len(resp.classes) - 1 :
          /\ resp.classes[i] = Class(<<"a">>, "", "x")
          /\ resp.classes[i + 1] = Class(<<"a", ".", "O">>, "x", "y")

\* C17 as stated rests on the store changing one key write at a time, with no
\* atomicity over the two pairs of a record: the Semester pair of a Create or
\* Update is in the store as soon as its Set has run, whatever another call
\* has written in between.
C17_KeyWritesInterleave ==
    [][\A p \in Procs :
        (/\ procs[p].pc = "op2"
         /\ procs[p].op \in {"Create", "Update"}
         /\ procs'[p].pc = "commit"
         /\ ~procs'[p].fn.err) =>
            FieldOf(db', procs[p].in.id, SemesterField) = procs[p].in.semester]_vars

\* C17 amended: concurrent Create and Update calls on the same id do not
\* interleave in the store: each commits its two pairs at once, so after any
\* interleaving of calls with records R1 and R2 of one id the store holds the
\* name and the semester of the same record, that of the call that committed
\* last, never the name of one and the semester of the other.
C17_NoMixedRecord ==
    \A X \in ConcIds :
        (Key(X, NameField) \in DOMAIN db \/ Key(X, SemesterField) \in DOMAIN db) =>
            Class(X, FieldOf(db, X, NameField), FieldOf(db, X, SemesterField)) \in ConcRecords

C17_Witness ==
    \E p \in Procs, q \in Procs :
        /\ procs[p].pc = "op2"
        /\ procs[p].op = "Create"
        /\ procs[p].in = Class(<<"a">>, "x", "x")
        /\ procs[q].pc = "ret"
        /\ procs[q].op = "Update"
        /\ procs[q].in = Class(<<"a">>, "y", "y")
        /\ ~procs[q].out.logged
        /\ FieldOf(db, <<"a">>, NameField) = "y"
        /\ FieldOf(db, <<"a">>, SemesterField) = "y"

C19_KeysHaveSeparator ==
    /\ \A id \in Ids \cup ScanIds, f \in {NameField, SemesterField} :
          /\ LastIndex(Key(id, f)) >= 0
          /\ \E i \in 1 .. Len(Key(id, f)) : Key(id, f)[i] = delim
    /\ \A in \in ScanRecords :
          /\ \A k \in DOMAIN CreateFn(in, 0).writes : \E i \in 1 .. Len(k) : k[i] = delim
          /\ \A k \in DOMAIN UpdateFn(in, 0).writes : \E i \in 1 .. Len(k) : k[i] = delim
    /\ \A k \in DOMAIN db :
          /\ \E i \in 1 .. Len(k) : k[i] = delim
          /\ LastIndex(k) >= 0
          /\ DecodeId(k) \o <<delim>> \o DecodeParam(k) = k
    /\ \A fault \in 0 .. Cardinality(DOMAIN db) : List(db, fault).resp.err # "panic"
    /\ resp.err # "panic"

C19_Witness ==
    /\ resp.op = "List"
    /\ resp.err = "nil"
    /\ ~resp.logged
    /\ Len(resp.classes) = 4
    /\ Key(<<>>, NameField) \in DOMAIN db
    /\ Key(<<"a", ".", "O">>, SemesterField) \in DOMAIN db

\* the stores s and t hold the same pairs, but for the two pairs of id X
SameButFor(s, t, X) ==
    LET own == {Key(X, NameField), Key(X, SemesterField)}
    IN  /\ DOMAIN s \ own = DOMAIN t \ own
        /\ \A k \in DOMAIN s \ own : s[k] = t[k]
        /\ \A Y \in ScanIds \ {X} :
              /\ Key(Y, NameField) \notin own
              /\ Key(Y, SemesterField) \notin own
              /\ FieldOf(s, Y, NameField) = FieldOf(t, Y, NameField)
              /\ FieldOf(s, Y, SemesterField) = FieldOf(t, Y, SemesterField)

\* C20: Create, Update and Delete of id X change at most the pairs X.Name and
\* X.Semester and leave the pairs of every other id as they are, also when an
\* id holds the separator or is the Name key of another, since the keys of
\* different (id, field) combinations differ; Get and List change no pair.
C20_Frame ==
    /\ \A X \in ScanIds, Y \in ScanIds :
          \A f \in {NameField, SemesterField}, g \in {NameField, SemesterField} :
              Key(X, f) = Key(Y, g) => (X = Y /\ f = g)
    /\ \A in \in ScanRecords, fault \in WriteFaults :
          /\ SameButFor(db, Create(db, in, fault).db, in.id)
          /\ SameButFor(db, Update(db, in, fault).db, in.id)
          /\ SameButFor(db, Delete(db, Class(in.id, "", ""), fault).db, in.id)
    /\ \A id \in ScanIds, fault \in GetFaults : Get(db, id, fault).db = db
    /\ \A fault \in 0 .. Cardinality(DOMAIN db) : List(db, fault).db = db

C20_Witness ==
    /\ resp.op = "Create"
    /\ ~resp.logged
    /\ resp.id = <<"a">>
    /\ resp.name = "x"
    /\ FieldOf(db, <<"a">>, NameField) = "x"
    /\ FieldOf(db, <<"a">>, SemesterField) = "y"
    /\ Key(<<"a", ".", "N", "a", "m", "e">>, NameField) \in DOMAIN db
    /\ FieldOf(db, <<"a", ".", "N", "a", "m", "e">>, NameField) = ""
    /\ FieldOf(db, <<"a", ".", "N", "a", "m", "e">>, SemesterField) = "x"

=============================================================================
